---- MODULE Spec2Model ----
(***************************************************************************)
(* A model of PresetManager (src/src/mlx_omni_server/utils/mlx_preset.py): *)
(* the class-level cache, the JSON configuration file it is loaded from    *)
(* and written back to, the four accessors and update_preset; and of       *)
(* ensure_user_config (src/src/mlx_omni_server/main.py), the bootstrap     *)
(* step that seeds the per-user configuration file.                        *)
(*                                                                         *)
(* A JSON value is a tree: a function from a prefix-closed set of key      *)
(* paths (the root is the empty path) to a tag, Dict for a mapping and the *)
(* scalar itself otherwise.  Python dicts keep insertion order; dict       *)
(* equality and every accessor ignore it, so the order is not modelled and *)
(* the serialiser emits keys in the fixed order KeyOrder.                  *)
(***************************************************************************)
EXTENDS Integers, Sequences, FiniteSets, TLC

VARIABLES
  file,    \* the file at _config_path: whether it exists and its chunks
  heap,    \* the dict objects json.load has created, by identity
  cache,   \* cls._cache: an index into heap, 0 for None
  pc,      \* where each thread is in the method it runs
  frame,   \* the arguments and locals of that method
  ret,     \* how the last call of each thread ended
  pre,     \* history: what the caller could see when that call began
  synced,  \* history: the document last read from or fully written to the file
  ncalls,  \* calls begun so far
  user     \* the file at ~/.mlx_preset/config.json

vars == <<file, heap, cache, pc, frame, ret, pre, synced, ncalls, user>>

---------------------------------------------------------------------------
(* Bounds and input sets *)

\* Number of calls (lookups and updates together) one run of the process makes.
MaxCalls == 2

KeyOrder == <<"preset", "code", "default", "temp">>
Keys == {KeyOrder[i] : i \in 1..Len(KeyOrder)}

\* Scalars stored in the initial documents and scalars passed to update_preset.
UpdateValues == {"0.3", "0.9"}

\* Key paths passed to update_preset: every prefix of two full paths, the
\* empty path included.
BasePaths == { <<"preset", "code", "temp", "default">>,
               <<"code", "default", "temp">> }
KeyPaths == UNION { { SubSeq(b, 1, n) : n \in 0..Len(b) } : b \in BasePaths }

\* Arguments passed to the accessors.
LookupNamespaces == {"preset", "code"}
LookupGroups == {"code", "default", "temp"}
LookupModes == {"code", "default", "temp"}

\* Chunks of json.dump that the buffered file object hands to the file in one
\* write; what is left in the buffer is written when the file is closed.
WriteChunk == 8

\* Arguments of the calls that run concurrently: an update that creates its
\* path, one in another namespace, one that puts a scalar over a mapping the
\* others walk through.
ConcKeyPaths == { <<"preset", "code", "temp">>, <<"code", "default">>, <<"preset">> }
ConcNamespaces == {"preset"}
ConcGroups == {"code"}
ConcModes == {"temp"}

\* Key paths of the updates made next to the bootstrap step and to the
\* writes of other processes.
EnvKeyPaths == { <<"preset", "code", "temp">>, <<"code", "default">> }

Threads == {"t1", "t2"}
MainThread == "t1"

---------------------------------------------------------------------------
(* JSON values *)

Dict == "{}"

EmptyDict == (<<>> :> Dict)

ScalarTree(v) == (<<>> :> v)

IsDict(tree) == tree[<<>>] = Dict

IsPrefix(p, q) == Len(p) <= Len(q) /\ SubSeq(q, 1, Len(p)) = p

Rest(p, q) == SubSeq(q, Len(p) + 1, Len(q))

\* The value stored at path p of tree, as a tree of its own.
SubTree(tree, p) ==
  [q \in { Rest(p, r) : r \in { r2 \in DOMAIN tree : IsPrefix(p, r2) } }
     |-> tree[p \o q]]

\* tree with the value at path p replaced by (or set to) the tree sub.
Graft(tree, p, sub) ==
  [r \in { r2 \in DOMAIN tree : ~IsPrefix(p, r2) } \cup { p \o q : q \in DOMAIN sub }
     |-> IF IsPrefix(p, r) THEN sub[Rest(p, r)] ELSE tree[r]]

\* A mapping of parameter names to scalars.
IsFlat(tree) ==
  /\ IsDict(tree)
  /\ \A q \in DOMAIN tree : Len(q) <= 1 /\ (Len(q) = 1 => tree[q] # Dict)

\* A document literal: the mapping whose keys ks[i] hold the trees subs[i].
RECURSIVE Obj(_, _)
Obj(ks, subs) ==
  IF ks = <<>> THEN EmptyDict
  ELSE Graft(Obj(SubSeq(ks, 2, Len(ks)), SubSeq(subs, 2, Len(subs))),
             <<ks[1]>>, subs[1])

---------------------------------------------------------------------------
(* json.dump and json.load *)

Tok(t, s) == [t |-> t, s |-> s]
LBrace == Tok("{", "")
RBrace == Tok("}", "")

ChildKeys(tree, p) == SelectSeq(KeyOrder, LAMBDA k : Append(p, k) \in DOMAIN tree)

\* json.dump: the chunks written for the value at path p, in order.
RECURSIVE SerAt(_, _)
RECURSIVE SerMembers(_, _, _)
SerMembers(tree, p, ks) ==
  IF ks = <<>> THEN <<>>
  ELSE <<Tok("key", ks[1])>> \o SerAt(tree, Append(p, ks[1]))
         \o SerMembers(tree, p, SubSeq(ks, 2, Len(ks)))
SerAt(tree, p) ==
  IF tree[p] # Dict THEN <<Tok("scalar", tree[p])>>
  ELSE <<LBrace>> \o SerMembers(tree, p, ChildKeys(tree, p)) \o <<RBrace>>

Serialize(tree) == SerAt(tree, <<>>)

NoTree == <<>>
ParseFail == [ok |-> FALSE, next |-> 0, tree |-> NoTree]

\* json.load: a recursive-descent parse of the chunks; a later duplicate key
\* replaces an earlier one.
RECURSIVE ParseValue(_, _)
RECURSIVE ParseMembers(_, _, _)
ParseMembers(s, i, acc) ==
  IF i > Len(s) THEN ParseFail
  ELSE IF s[i].t = "}" THEN [ok |-> TRUE, next |-> i + 1, tree |-> acc]
  ELSE IF s[i].t = "key" THEN
    LET r == ParseValue(s, i + 1) IN
    IF r.ok THEN ParseMembers(s, r.next, Graft(acc, <<s[i].s>>, r.tree))
    ELSE ParseFail
  ELSE ParseFail
ParseValue(s, i) ==
  IF i > Len(s) THEN ParseFail
  ELSE IF s[i].t = "scalar" THEN
    [ok |-> TRUE, next |-> i + 1, tree |-> ScalarTree(s[i].s)]
  ELSE IF s[i].t = "{" THEN ParseMembers(s, i + 1, EmptyDict)
  ELSE ParseFail

\* The whole text must be one value: an empty or truncated text, or text
\* after the value, is a JSONDecodeError.
Parse(s) ==
  LET r == ParseValue(s, 1) IN
  IF r.ok /\ r.next = Len(s) + 1 THEN [ok |-> TRUE, tree |-> r.tree]
  ELSE [ok |-> FALSE, tree |-> NoTree]

---------------------------------------------------------------------------
(* The return expressions of the accessors: chains of dict.get *)

Ok(tree) == [error |-> "none", value |-> tree]
Raise(e) == [error |-> e, value |-> NoTree]

\* r.get(k, {}) where r is the result of the call before it in the chain.
DictGet(r, k) ==
  IF r.error # "none" THEN r
  ELSE IF ~IsDict(r.value) THEN Raise("AttributeError")
  ELSE IF <<k>> \in DOMAIN r.value THEN Ok(SubTree(r.value, <<k>>))
  ELSE Ok(EmptyDict)

\* Variant: a stored value that is not a flat mapping is reported as absent.
ModelLookupFlatOnly(cfg, preset, model_name) ==
  LET r == DictGet(DictGet(Ok(cfg), preset), model_name)
  IN IF r.error = "none" /\ ~IsFlat(r.value) THEN Ok(EmptyDict) ELSE r

get_preset_by_preset_model_name_return(cfg, preset, model_name) ==
  DictGet(DictGet(Ok(cfg), preset), model_name)

\* Variant: an absent mode falls back to the group's "default" entry.
SlugLookupWithFallback(cfg, preset, slug, mode_name) ==
  LET group == DictGet(DictGet(Ok(cfg), preset), slug)
      r == DictGet(group, mode_name)
  IN IF r.error = "none" /\ r.value = EmptyDict THEN DictGet(group, "default")
     ELSE r

get_preset_by_preset_slug_model_name_return(cfg, preset, slug, mode_name) ==
  DictGet(DictGet(DictGet(Ok(cfg), preset), slug), mode_name)

get_default_preset_return(cfg, preset) ==
  DictGet(DictGet(Ok(cfg), preset), "default")

get_default_slug_preset_return(cfg, preset, slug) ==
  DictGet(DictGet(DictGet(Ok(cfg), preset), slug), "default")

---------------------------------------------------------------------------
(* Initial documents *)

Temp(v) == Obj(<<"temp">>, <<ScalarTree(v)>>)

\* {"preset": {"default": {"temp": 0.7}, "code": {"temp": 0.2}}}
DocA == Obj(<<"preset">>, <<Obj(<<"default", "code">>, <<Temp("0.7"), Temp("0.2")>>)>>)

\* {"preset": {"default": {"temp": 0.7},
\*             "code": {"code": {"temp": 0.1}, "default": {"temp": 0.5}}}}
DocB == Obj(<<"preset">>,
            <<Obj(<<"default", "code">>,
                  <<Temp("0.7"),
                    Obj(<<"code", "default">>, <<Temp("0.1"), Temp("0.5")>>)>>)>>)

InitDocs == {DocA, DocB, EmptyDict}

\* {"preset": {"code": {"temp": 0.9}}}: what a per-user file holds that was
\* there before the process started.
UserDoc == Obj(<<"preset">>, <<Obj(<<"code">>, <<Temp("0.9")>>)>>)

\* {"preset": {"code": {"temp": 0.1}, "temp": {"temp": 0.5}}}: what another
\* process writes.
ForeignDoc == Obj(<<"preset">>, <<Obj(<<"code", "temp">>, <<Temp("0.1"), Temp("0.5")>>)>>)
ForeignDocs == {ForeignDoc}

---------------------------------------------------------------------------
(* The file system and the process *)

FileOf(tree) == [exists |-> TRUE, data |-> Serialize(tree)]
NoFile == [exists |-> FALSE, data |-> <<>>]

\* What a file shows where nothing was written: after another handle has
\* truncated it, a write at an offset past its end leaves a hole before it.
Nul == Tok("nul", "")
Pad(data, n) ==
  IF Len(data) >= n THEN data
  ELSE data \o [j \in 1..(n - Len(data)) |-> Nul]

\* A write of the chunks toks through a handle at offset pos: they replace
\* what is at that offset and extend the file.
WriteAt(data, pos, toks) ==
  SubSeq(Pad(data, pos), 1, pos) \o toks
    \o SubSeq(data, pos + Len(toks) + 1, Len(data))

\* Variant: the file is opened in append mode, which keeps its content.
OpenAppend(f) == [exists |-> TRUE, data |-> f.data]

\* open(path, "w"): the file is created or truncated to nothing.  The handle
\* starts at the end of what open left in the file.
OpenW(f) == [exists |-> TRUE, data |-> <<>>]

\* The locals of a call: cfg, d, i (keys of key_path[:-1] done), plan (what
\* the generator inside json.dump has still to produce), pos (the offset of
\* the file handle).  d refers to a mapping object: it is kept as the path of
\* that mapping inside cfg, or, once another thread has replaced the mapping
\* or one above it by a scalar (det), as its path inside orphan, the object
\* that was cut off from cfg and that only d still reaches.
NoFrame == [op |-> "none", args |-> <<>>, value |-> "", cfg |-> 0,
            d |-> <<>>, det |-> FALSE, orphan |-> NoTree, i |-> 0,
            plan |-> <<>>, pos |-> 0]
NoRet == [op |-> "none", args |-> <<>>, value |-> "", error |-> "none",
          result |-> NoTree]
NoPre == [loadable |-> FALSE, view |-> NoTree, file |-> NoFile, last |-> NoRet,
          lastview |-> NoTree, lasterror |-> "none", user |-> NoFile]

\* What _load_config() would hand out in the current state: the cached
\* object when there is one, otherwise the parsed file.
Loadable == cache # 0 \/ (file.exists /\ Parse(file.data).ok)
View == IF cache # 0 THEN heap[cache]
        ELSE IF file.exists THEN Parse(file.data).tree
        ELSE NoTree

\* The exceptions _load_config lets through: of open at line 23 and of
\* json.load at line 24.
LoadErrors == {"FileNotFoundError", "JSONDecodeError"}

\* last: the call before this one when that was an update_preset that
\* returned normally, and lastview: the document that call began with;
\* lasterror: the exception of the call before this one when it ended in
\* _load_config.
Snapshot(t) ==
  LET updated == ret[t].op = "update_preset" /\ ret[t].error = "none"
  IN [loadable |-> Loadable, view |-> View, file |-> file, user |-> user,
      last |-> IF updated THEN ret[t] ELSE NoRet,
      lastview |-> IF updated THEN pre[t].view ELSE NoTree,
      lasterror |-> IF ret[t].op # "ensure_user_config" /\ ret[t].error \in LoadErrors
                    THEN ret[t].error ELSE "none"]

\* The process has imported PresetManager and called nothing yet.
InitProcess ==
  /\ file \in { FileOf(doc) : doc \in InitDocs } \cup {NoFile}
  /\ heap = <<>>
  /\ cache = 0
  /\ pc = [t \in Threads |-> "idle"]
  /\ frame = [t \in Threads |-> NoFrame]
  /\ ret = [t \in Threads |-> NoRet]
  /\ pre = [t \in Threads |-> NoPre]
  /\ synced = NoTree
  /\ ncalls = 0

\* PresetManager never opens the per-user file: where the bootstrap step is
\* not run that file is taken to be absent.
Init == InitProcess /\ user = NoFile

\* A caller enters a method: the arguments are bound and _load_config is
\* the first thing every method calls.
Enter(t, op, args, value) ==
  /\ ncalls < MaxCalls
  /\ ncalls' = ncalls + 1
  /\ pc' = [pc EXCEPT ![t] = "load"]
  /\ frame' = [frame EXCEPT ![t] = [NoFrame EXCEPT !.op = op, !.args = args,
                                                   !.value = value]]
  /\ ret' = [ret EXCEPT ![t] = NoRet]
  /\ pre' = [pre EXCEPT ![t] = Snapshot(t)]
  /\ UNCHANGED <<file, heap, cache, synced, user>>

\* The call of thread t ends: error is "none" for a normal return.
Leave(t, error, result) ==
  /\ pc' = [pc EXCEPT ![t] = "idle"]
  /\ ret' = [ret EXCEPT ![t] = [op |-> frame[t].op, args |-> frame[t].args,
                                value |-> frame[t].value, error |-> error,
                                result |-> result]]
  /\ frame' = [frame EXCEPT ![t] = NoFrame]

get_preset_by_preset_model_name(t, preset, model_name) ==
  /\ pc[t] = "idle"
  /\ Enter(t, "get_preset_by_preset_model_name", <<preset, model_name>>, "")

get_preset_by_preset_slug_model_name(t, preset, slug, mode_name) ==
  /\ pc[t] = "idle"
  /\ Enter(t, "get_preset_by_preset_slug_model_name", <<preset, slug, mode_name>>, "")

get_default_preset(t, preset) ==
  /\ pc[t] = "idle"
  /\ Enter(t, "get_default_preset", <<preset>>, "")

get_default_slug_preset(t, preset, slug) ==
  /\ pc[t] = "idle"
  /\ Enter(t, "get_default_slug_preset", <<preset, slug>>, "")

update_preset(t, key_path, value) ==
  /\ pc[t] = "idle"
  /\ Enter(t, "update_preset", key_path, value)

\* Where a method continues once _load_config has returned.
AfterLoad(op) == IF op = "update_preset" THEN "walk" ELSE "get"

\* Variant: the file is read on every call, cached or not.
LoadHitReloads(t) ==
  /\ pc[t] = "load"
  /\ cache # 0
  /\ pc' = [pc EXCEPT ![t] = "read"]
  /\ UNCHANGED <<file, heap, cache, frame, ret, pre, synced, ncalls, user>>

\* _load_config with the cache populated: line 22 is false, line 25 returns
\* the cached object.
LoadHit(t) ==
  /\ pc[t] = "load"
  /\ cache # 0
  /\ frame' = [frame EXCEPT ![t].cfg = cache]
  /\ pc' = [pc EXCEPT ![t] = AfterLoad(frame[t].op)]
  /\ UNCHANGED <<file, heap, cache, ret, pre, synced, ncalls, user>>

\* _load_config, line 22 with the cache empty.
LoadMiss(t) ==
  /\ pc[t] = "load"
  /\ cache = 0
  /\ pc' = [pc EXCEPT ![t] = "read"]
  /\ UNCHANGED <<file, heap, cache, frame, ret, pre, synced, ncalls, user>>

\* _load_config, lines 23-24: the file is opened and parsed into a new
\* object, which is stored in the cache.
ReadFile(t) ==
  /\ pc[t] = "read"
  /\ file.exists
  /\ Parse(file.data).ok
  /\ heap' = Append(heap, Parse(file.data).tree)
  /\ cache' = Len(heap) + 1
  /\ synced' = Parse(file.data).tree
  /\ pc' = [pc EXCEPT ![t] = "loaded"]
  /\ UNCHANGED <<file, frame, ret, pre, ncalls, user>>

\* Variant: the file is opened in a mode that creates it when it is missing.
ReadFileCreates(t) ==
  /\ pc[t] = "read"
  /\ ~file.exists
  /\ file' = [exists |-> TRUE, data |-> <<>>]
  /\ Leave(t, "JSONDecodeError", NoTree)
  /\ UNCHANGED <<heap, cache, pre, synced, ncalls, user>>

\* Line 23: open("r") of a file that is not there.
ReadFileMissing(t) ==
  /\ pc[t] = "read"
  /\ ~file.exists
  /\ Leave(t, "FileNotFoundError", NoTree)
  /\ UNCHANGED <<file, heap, cache, pre, synced, ncalls, user>>

\* Line 24: json.load of a text that is not one JSON value.
ReadFileCorrupt(t) ==
  /\ pc[t] = "read"
  /\ file.exists
  /\ ~Parse(file.data).ok
  /\ Leave(t, "JSONDecodeError", NoTree)
  /\ UNCHANGED <<file, heap, cache, pre, synced, ncalls, user>>

\* _load_config, line 25 after a load.
LoadReturn(t) ==
  /\ pc[t] = "loaded"
  /\ frame' = [frame EXCEPT ![t].cfg = cache]
  /\ pc' = [pc EXCEPT ![t] = AfterLoad(frame[t].op)]
  /\ UNCHANGED <<file, heap, cache, ret, pre, synced, ncalls, user>>

AccessorResult(op, args, cfg) ==
  CASE op = "get_preset_by_preset_model_name" ->
         get_preset_by_preset_model_name_return(cfg, args[1], args[2])
    [] op = "get_preset_by_preset_slug_model_name" ->
         get_preset_by_preset_slug_model_name_return(cfg, args[1], args[2], args[3])
    [] op = "get_default_preset" ->
         get_default_preset_return(cfg, args[1])
    [] op = "get_default_slug_preset" ->
         get_default_slug_preset_return(cfg, args[1], args[2])

\* Variant: the accessor looks the namespace up with setdefault, which puts
\* an empty mapping where there is none.
AccessorReturnInserts(t) ==
  /\ pc[t] = "get"
  /\ LET f == frame[t]
         r == AccessorResult(f.op, f.args, heap[f.cfg])
     IN /\ Leave(t, r.error, r.value)
        /\ heap' = [heap EXCEPT ![f.cfg] =
                      IF <<f.args[1]>> \in DOMAIN @ THEN @
                      ELSE Graft(@, <<f.args[1]>>, EmptyDict)]
  /\ UNCHANGED <<file, cache, pre, synced, ncalls, user>>

\* The return statement of an accessor (lines 38, 53, 60, 67).
AccessorReturn(t) ==
  /\ pc[t] = "get"
  /\ LET r == AccessorResult(frame[t].op, frame[t].args, heap[frame[t].cfg])
     IN Leave(t, r.error, r.value)
  /\ UNCHANGED <<file, heap, cache, pre, synced, ncalls, user>>

\* Variant: d[key] = {} in place of setdefault, which empties a mapping that
\* is already there.
SetDefaultClobber(tree, d, key) ==
  IF tree[d] # Dict THEN Raise("AttributeError")
  ELSE Ok(Graft(tree, Append(d, key), EmptyDict))

\* d.setdefault(key, {}) where d is the value at path d of tree: a scalar has
\* no setdefault; a mapping gets the key with an empty mapping unless it has
\* the key already.
SetDefault(tree, d, key) ==
  IF tree[d] # Dict THEN Raise("AttributeError")
  ELSE IF Append(d, key) \in DOMAIN tree THEN Ok(tree)
  ELSE Ok(Graft(tree, Append(d, key), EmptyDict))

\* Variant: an empty key path is taken to name the "default" key.
LastKeyOrDefault(key_path) ==
  IF Len(key_path) = 0 THEN [error |-> "none", key |-> "default"]
  ELSE [error |-> "none", key |-> key_path[Len(key_path)]]

\* key_path[-1]: out of range for an empty list.
LastKey(key_path) ==
  IF Len(key_path) = 0 THEN [error |-> "IndexError", key |-> ""]
  ELSE [error |-> "none", key |-> key_path[Len(key_path)]]

\* Variant: a scalar in the way is replaced by a mapping holding the key.
SetItemOverScalar(tree, d, key, value) ==
  IF tree[d] # Dict
  THEN Ok(Graft(Graft(tree, d, EmptyDict), Append(d, key), ScalarTree(value)))
  ELSE Ok(Graft(tree, Append(d, key), ScalarTree(value)))

\* d[key] = value where d is the value at path d of tree: a scalar supports no
\* item assignment.
SetItem(tree, d, key, value) ==
  IF tree[d] # Dict THEN Raise("TypeError")
  ELSE Ok(Graft(tree, Append(d, key), ScalarTree(value)))

---------------------------------------------------------------------------
(* json.dump as a generator, and references held across a thread switch *)

\* json.dump(cfg, f, indent=2) runs a generator over cfg and writes each
\* chunk as it comes.  What the generator has still to do is a sequence of
\* items: a chunk already decided ("tok"), the next key of the mapping at
\* path p, whose keys were fixed when its iteration began ("key"), the value
\* at path p, looked up when the generator gets there ("value"), the end of
\* the iteration of the mapping at p ("end"), or a RuntimeError ("raise").
Item(k, p, tok) == [k |-> k, p |-> p, tok |-> tok]
ValueAt(p) == Item("value", p, Nul)
EndOf(p) == Item("end", p, RBrace)
RaiseItem == Item("raise", <<>>, Nul)

RECURSIVE Members(_, _)
Members(p, ks) ==
  IF ks = <<>> THEN <<>>
  ELSE <<Item("key", p, Tok("key", ks[1])), ValueAt(Append(p, ks[1]))>>
         \o Members(p, Tail(ks))

\* The next k chunks of the generator run against tree, and what is left.
RECURSIVE Produce(_, _, _)
Produce(tree, plan, k) ==
  IF k = 0 \/ plan = <<>> \/ Head(plan).k = "raise"
  THEN [toks |-> <<>>, plan |-> plan]
  ELSE LET h == Head(plan)
           enter == h.k = "value" /\ tree[h.p] = Dict
           first == IF h.k # "value" THEN h.tok
                    ELSE IF enter THEN LBrace
                    ELSE Tok("scalar", tree[h.p])
           after == IF enter
                    THEN Members(h.p, ChildKeys(tree, h.p)) \o <<EndOf(h.p)>>
                           \o Tail(plan)
                    ELSE Tail(plan)
           r == Produce(tree, after, k - 1)
       IN [toks |-> <<first>> \o r.toks, plan |-> r.plan]

\* The mapping at path p is being iterated.
Iterating(plan, p) == \E j \in 1..Len(plan) : plan[j] = EndOf(p)

\* A key was added to the mapping at p while it is being iterated: the
\* iterator raises "dictionary changed size during iteration" when next
\* asked, which is before the next key of that mapping or at its end.
Break(plan, p) ==
  LET js == { j \in 1..Len(plan) : plan[j].k \in {"key", "end"} /\ plan[j].p = p }
      first == CHOOSE j \in js : \A j2 \in js : j <= j2
  IN SubSeq(plan, 1, first - 1) \o <<RaiseItem>>

Lits(toks) == [j \in 1..Len(toks) |-> Item("tok", <<>>, toks[j])]

\* The value at q was replaced while the generator is inside it: the
\* generator keeps iterating the objects it holds, which are those of old
\* below q and which nothing else reaches any more.
RECURSIVE Freeze(_, _, _)
Freeze(plan, old, q) ==
  IF plan = <<>> THEN <<>>
  ELSE LET h == Head(plan)
       IN (IF h.k = "value" /\ IsPrefix(q, h.p) /\ h.p # q
           THEN Lits(SerAt(old, h.p))
           ELSE IF h.k \in {"key", "end"} /\ IsPrefix(q, h.p)
           THEN <<Item("tok", <<>>, h.tok)>>
           ELSE <<h>>)
          \o Freeze(Tail(plan), old, q)

\* The frame f of another thread, which is at pcu, after a thread has set
\* key of the mapping at path p of heap object o, which was old before.
Affected(f, pcu, o, old, p, key) ==
  LET q == Append(p, key) IN
  IF f.cfg # o THEN f
  ELSE IF pcu = "walk" /\ ~f.det /\ q \in DOMAIN old /\ IsPrefix(q, f.d)
  THEN [f EXCEPT !.det = TRUE, !.orphan = SubTree(old, q), !.d = Rest(q, f.d)]
  ELSE IF pcu = "dump" /\ q \notin DOMAIN old /\ Iterating(f.plan, p)
  THEN [f EXCEPT !.plan = Break(f.plan, p)]
  ELSE IF pcu = "dump" /\ q \in DOMAIN old
  THEN [f EXCEPT !.plan = Freeze(f.plan, old, q)]
  ELSE f

\* The object d is inside of.
Root(f) == IF f.det THEN f.orphan ELSE heap[f.cfg]

\* update_preset, lines 78-79: one iteration of the loop over key_path[:-1].
Walk(t) ==
  /\ pc[t] = "walk"
  /\ frame[t].i < Len(frame[t].args) - 1
  /\ LET f == frame[t]
         key == f.args[f.i + 1]
         r == SetDefault(Root(f), f.d, key)
         mine == [f EXCEPT !.d = Append(f.d, key), !.i = f.i + 1]
     IN IF r.error # "none"
        THEN /\ Leave(t, r.error, NoTree)
             /\ UNCHANGED heap
        ELSE IF f.det
        THEN /\ frame' = [frame EXCEPT ![t] = [mine EXCEPT !.orphan = r.value]]
             /\ UNCHANGED <<heap, pc, ret>>
        ELSE /\ heap' = [heap EXCEPT ![f.cfg] = r.value]
             /\ frame' = [u \in Threads |->
                            IF u = t THEN mine
                            ELSE IF r.value = heap[f.cfg] THEN frame[u]
                            ELSE Affected(frame[u], pc[u], f.cfg, heap[f.cfg], f.d, key)]
             /\ UNCHANGED <<pc, ret>>
  /\ UNCHANGED <<file, cache, pre, synced, ncalls, user>>

\* Line 80: d[key_path[-1]] = value.
Assign(t) ==
  /\ pc[t] = "walk"
  /\ frame[t].i >= Len(frame[t].args) - 1
  /\ LET f == frame[t]
         k == LastKey(f.args)
         r == SetItem(Root(f), f.d, k.key, f.value)
     IN IF k.error # "none"
        THEN /\ Leave(t, k.error, NoTree)
             /\ UNCHANGED heap
        ELSE IF r.error # "none"
        THEN /\ Leave(t, r.error, NoTree)
             /\ UNCHANGED heap
        ELSE /\ pc' = [pc EXCEPT ![t] = "open"]
             /\ UNCHANGED ret
             /\ IF f.det
                THEN /\ frame' = [frame EXCEPT ![t].orphan = r.value]
                     /\ UNCHANGED heap
                ELSE /\ heap' = [heap EXCEPT ![f.cfg] = r.value]
                     /\ frame' = [u \in Threads |->
                                    IF u = t THEN f
                                    ELSE Affected(frame[u], pc[u], f.cfg,
                                                  heap[f.cfg], f.d, k.key)]
  /\ UNCHANGED <<file, cache, pre, synced, ncalls, user>>

\* Line 82: the file is opened for writing, which empties it.
Open(t) ==
  /\ pc[t] = "open"
  /\ file' = OpenW(file)
  /\ frame' = [frame EXCEPT ![t].pos = Len(file'.data),
                            ![t].plan = <<ValueAt(<<>>)>>]
  /\ pc' = [pc EXCEPT ![t] = "dump"]
  /\ UNCHANGED <<heap, cache, ret, pre, synced, ncalls, user>>

\* Line 82 raising OSError: nothing was opened, the file is as it was.
OpenFail(t) ==
  /\ pc[t] = "open"
  /\ Leave(t, "OSError(open)", NoTree)
  /\ UNCHANGED <<file, heap, cache, pre, synced, ncalls, user>>

\* Line 83: json.dump produces the next chunks of the document and they are
\* written at the handle's offset.
Dump(t) ==
  /\ pc[t] = "dump"
  /\ frame[t].plan # <<>>
  /\ Head(frame[t].plan).k # "raise"
  /\ LET r == Produce(heap[frame[t].cfg], frame[t].plan, WriteChunk)
     IN /\ file' = [file EXCEPT !.data = WriteAt(@, frame[t].pos, r.toks)]
        /\ frame' = [frame EXCEPT ![t].plan = r.plan, ![t].pos = @ + Len(r.toks)]
  /\ UNCHANGED <<heap, cache, pc, ret, pre, synced, ncalls, user>>

\* Line 83 raising OSError after any number of writes: the with block closes
\* the file with what was written and the exception leaves update_preset.
DumpFail(t) ==
  /\ pc[t] = "dump"
  /\ Leave(t, "OSError(write)", NoTree)
  /\ UNCHANGED <<file, heap, cache, pre, synced, ncalls, user>>

\* Line 83 raising RuntimeError: another thread has added a key to a mapping
\* the generator is iterating.  The file keeps what was written.
DumpRace(t) ==
  /\ pc[t] = "dump"
  /\ frame[t].plan # <<>>
  /\ Head(frame[t].plan).k = "raise"
  /\ Leave(t, "RuntimeError", NoTree)
  /\ UNCHANGED <<file, heap, cache, pre, synced, ncalls, user>>

\* The end of the with block: every chunk is written, the file is closed.
Close(t) ==
  /\ pc[t] = "dump"
  /\ frame[t].plan = <<>>
  /\ pc' = [pc EXCEPT ![t] = "publish"]
  /\ synced' = heap[frame[t].cfg]
  /\ UNCHANGED <<file, heap, cache, frame, ret, pre, ncalls, user>>

\* Variant: the cache is emptied after the write (cls._cache = None), so
\* that the next call loads the file again.
PublishDropsCache(t) ==
  /\ pc[t] = "publish"
  /\ cache' = 0
  /\ Leave(t, "none", NoTree)
  /\ UNCHANGED <<file, heap, pre, synced, ncalls, user>>

\* Line 84: cls._cache = cfg, and the method returns None.
Publish(t) ==
  /\ pc[t] = "publish"
  /\ cache' = frame[t].cfg
  /\ Leave(t, "none", NoTree)
  /\ UNCHANGED <<file, heap, pre, synced, ncalls, user>>

---------------------------------------------------------------------------
(* The bootstrap step (main.py) and other processes *)

\* Variant: the packaged default is copied whether or not the per-user file
\* is there.
CopyRegardless(user_cfg, default_cfg) ==
  IF ~default_cfg.exists
  THEN [error |-> "FileNotFoundError", user |-> user_cfg]
  ELSE [error |-> "none", user |-> [exists |-> TRUE, data |-> default_cfg.data]]

\* ensure_user_config, lines 49-57: when user_cfg_path is not a file,
\* shutil.copy(default_cfg_path, user_cfg_path) opens the source, which
\* raises when it is missing, and then writes its bytes to the destination.
UserConfigAfter(user_cfg, default_cfg) ==
  IF user_cfg.exists THEN [error |-> "none", user |-> user_cfg]
  ELSE IF ~default_cfg.exists
  THEN [error |-> "FileNotFoundError", user |-> user_cfg]
  ELSE [error |-> "none", user |-> [exists |-> TRUE, data |-> default_cfg.data]]

\* default_cfg_path (main.py line 52) is <package>/mlx_preset/config.json,
\* which is the path PresetManager._config_path names (mlx_preset.py
\* line 12): the file the bootstrap copies from is the variable file.
ensure_user_config(t) ==
  /\ pc[t] = "idle"
  /\ ncalls < MaxCalls
  /\ ncalls' = ncalls + 1
  /\ pre' = [pre EXCEPT ![t] = Snapshot(t)]
  /\ LET r == UserConfigAfter(user, file)
     IN /\ user' = r.user
        /\ ret' = [ret EXCEPT ![t] = [op |-> "ensure_user_config", args |-> <<>>,
                                      value |-> "", error |-> r.error,
                                      result |-> NoTree]]
  /\ UNCHANGED <<file, heap, cache, pc, frame, synced>>

\* Another process puts a whole document at _config_path (an installation,
\* or a finished update_preset of another worker) while no call of this
\* process is running.
OtherProcessWrite ==
  /\ \A t \in Threads : pc[t] = "idle"
  /\ \E doc \in ForeignDocs :
       /\ file # FileOf(doc)
       /\ file' = FileOf(doc)
  /\ UNCHANGED <<heap, cache, pc, frame, ret, pre, synced, ncalls, user>>

\* The process is killed while the file is open for writing and a new
\* process starts: the memory is gone, the file is what it was at that moment.
Kill ==
  /\ \E t \in Threads : pc[t] = "dump"
  /\ heap' = <<>>
  /\ cache' = 0
  /\ pc' = [t \in Threads |-> "idle"]
  /\ frame' = [t \in Threads |-> NoFrame]
  /\ ret' = [t \in Threads |->
               IF pc[t] = "idle" THEN NoRet
               ELSE [op |-> frame[t].op, args |-> frame[t].args,
                     value |-> frame[t].value,
                     error |-> "Killed",
                     result |-> NoTree]]
  /\ synced' = NoTree
  /\ UNCHANGED <<file, pre, ncalls, user>>

\* A caller begins one of the five methods, with arguments from the given sets.
Call(t, presets, slugs, modes, key_paths, values) ==
  \/ \E preset \in presets, model_name \in slugs :
       get_preset_by_preset_model_name(t, preset, model_name)
  \/ \E preset \in presets, slug \in slugs, mode_name \in modes :
       get_preset_by_preset_slug_model_name(t, preset, slug, mode_name)
  \/ \E preset \in presets : get_default_preset(t, preset)
  \/ \E preset \in presets, slug \in slugs :
       get_default_slug_preset(t, preset, slug)
  \/ \E key_path \in key_paths, value \in values :
       update_preset(t, key_path, value)

\* The method a caller is in advances by one step.
Run(t) ==
  \/ LoadHit(t) \/ LoadMiss(t)
  \/ ReadFile(t) \/ ReadFileMissing(t) \/ ReadFileCorrupt(t)
  \/ LoadReturn(t)
  \/ AccessorReturn(t)
  \/ Walk(t)
  \/ Assign(t)
  \/ Open(t) \/ OpenFail(t)
  \/ Dump(t) \/ DumpFail(t) \/ Close(t)
  \/ Publish(t)

Step(t) ==
  \/ Call(t, LookupNamespaces, LookupGroups, LookupModes, KeyPaths, UpdateValues)
  \/ Run(t)

\* One caller at a time: the calls of the process do not overlap.
Next == Step(MainThread) \/ Kill

Spec == Init /\ [][Next]_vars

\* Two callers in one process (request handlers on two threads): each runs
\* its method one step at a time and the scheduler may switch between them
\* after any step.  Nothing in PresetManager takes a lock.
StepConc(t) ==
  \/ Call(t, ConcNamespaces, ConcGroups, ConcModes, ConcKeyPaths, UpdateValues)
  \/ Run(t)
  \/ DumpRace(t)

NextConc == (\E t \in Threads : StepConc(t)) \/ Kill

SpecConc == Init /\ [][NextConc]_vars

\* One caller in its environment: the process start-up runs the bootstrap
\* step, the per-user file may be there already, and other processes write
\* the file at _config_path between the calls.
InitEnv == InitProcess /\ user \in {NoFile, FileOf(UserDoc)}

StepEnv(t) ==
  \/ Call(t, ConcNamespaces, ConcGroups, ConcModes, EnvKeyPaths, UpdateValues)
  \/ Run(t)
  \/ ensure_user_config(t)

NextEnv == StepEnv(MainThread) \/ OtherProcessWrite \/ Kill

SpecEnv == InitEnv /\ [][NextEnv]_vars

---------------------------------------------------------------------------
(* Properties *)

T == MainThread

Accessors == { "get_preset_by_preset_model_name",
               "get_preset_by_preset_slug_model_name",
               "get_default_preset", "get_default_slug_preset" }

\* The one path an accessor probes.
ProbedPath(op, args) ==
  IF op \in {"get_default_preset", "get_default_slug_preset"}
  THEN Append(args, "default") ELSE args

\* The last call of the caller was an update_preset that returned normally.
Updated == ret[T].op = "update_preset" /\ ret[T].error = "none"

\* The last call of the caller was an accessor on a document that loads.
Looked(op) == ret[T].op = op /\ pre[T].loadable

Unrelated(p, q) == ~IsPrefix(p, q) /\ ~IsPrefix(q, p)

IOErrors == {"OSError(open)", "OSError(write)"}

\* Some key of p other than the last holds a scalar in view.
Conflict(view, p) ==
  \E n \in 1..(Len(p) - 1) :
    SubSeq(p, 1, n) \in DOMAIN view /\ view[SubSeq(p, 1, n)] # Dict

\* C1: after update_preset(p, v) has returned normally the file, read and
\* parsed afresh, holds v at path p and holds every entry of the document
\* before the call that is neither above nor below p, with its old value.
C1_UpdateReadBack ==
  Updated =>
    LET r == Parse(file.data)
        p == ret[T].args
        old == pre[T].view
    IN /\ file.exists
       /\ r.ok
       /\ p \in DOMAIN r.tree
       /\ r.tree[p] = ret[T].value
       /\ \A q \in DOMAIN old :
            Unrelated(p, q) => q \in DOMAIN r.tree /\ r.tree[q] = old[q]

\* An update that created its path next to an existing scalar entry.
C1_Witness ==
  /\ Updated
  /\ ret[T].args \notin DOMAIN pre[T].view
  /\ \E q \in DOMAIN pre[T].view :
       Unrelated(ret[T].args, q) /\ pre[T].view[q] # Dict
  /\ Parse(file.data).ok
  /\ Parse(file.data).tree[ret[T].args] = ret[T].value

\* C2: when the write of update_preset is interrupted after it has begun (an
\* OSError inside json.dump, or the process killed), the file still parses
\* and holds the document it held before the call.
C2_InterruptedWriteKeepsFile ==
  ( /\ ret[T].op = "update_preset"
    /\ ret[T].error \in {"OSError(write)", "Killed"}
    /\ pre[T].file.exists
    /\ Parse(pre[T].file.data).ok )
  => ( /\ file.exists
       /\ Parse(file.data).ok
       /\ Parse(file.data).tree = Parse(pre[T].file.data).tree )

\* C3: when the write of update_preset fails with an I/O error, the document
\* a lookup reads and the file are what they were before the call.
C3_FailedWriteChangesNothing ==
  (ret[T].op = "update_preset" /\ ret[T].error \in IOErrors)
  => (View = pre[T].view /\ file = pre[T].file)

\* C4: an accessor whose probed path is absent from the loaded document
\* returns the empty mapping and raises nothing (stated for a cached document
\* that is the one on file).
C4_AbsentIsEmpty ==
  \A op \in Accessors :
    ( /\ Looked(op)
      /\ View = synced
      /\ file = FileOf(View)
      /\ ProbedPath(op, ret[T].args) \notin DOMAIN pre[T].view )
    => (ret[T].error = "none" /\ ret[T].result = EmptyDict)

\* C5: an accessor returns exactly what is stored at its one path: the
\* three-key lookup of a mode absent under a group that is a mapping, and the
\* two-key lookup of a group absent under a namespace that is a mapping,
\* return the empty mapping whatever defaults exist; a present path returns
\* the value stored there.
C5_ExactProbe ==
  LET view == pre[T].view
      a == ret[T].args
  IN /\ ( /\ Looked("get_preset_by_preset_slug_model_name")
          /\ <<a[1], a[2]>> \in DOMAIN view
          /\ view[<<a[1], a[2]>>] = Dict
          /\ a \notin DOMAIN view )
        => (ret[T].error = "none" /\ ret[T].result = EmptyDict)
     /\ ( /\ Looked("get_preset_by_preset_model_name")
          /\ <<a[1]>> \in DOMAIN view
          /\ view[<<a[1]>>] = Dict
          /\ a \notin DOMAIN view )
        => (ret[T].error = "none" /\ ret[T].result = EmptyDict)
     /\ \A op \in Accessors :
          (Looked(op) /\ ProbedPath(op, a) \in DOMAIN view)
          => ( /\ ret[T].error = "none"
               /\ ret[T].result = SubTree(view, ProbedPath(op, a)) )

\* A three-key lookup of an absent mode that came back empty although the
\* group default and the namespace default exist.
C5_Witness ==
  LET view == pre[T].view
      a == ret[T].args
  IN /\ Looked("get_preset_by_preset_slug_model_name")
     /\ a \notin DOMAIN view
     /\ <<a[1], a[2], "default">> \in DOMAIN view
     /\ <<a[1], "default">> \in DOMAIN view
     /\ ret[T].result = EmptyDict

C7_ConflictFails ==
  LET view == pre[T].view
      p == ret[T].args
  IN /\ ( /\ ret[T].op = "update_preset"
          /\ pre[T].loadable
          /\ Conflict(view, p) )
        => ( /\ ret[T].error \in {"AttributeError", "TypeError"}
             /\ View = view
             /\ file = pre[T].file )
     /\ ( /\ ret[T].op = "update_preset"
          /\ pre[T].loadable
          /\ p \in DOMAIN view
          /\ view[p] # Dict
          /\ ret[T].error \notin IOErrors \cup {"Killed"} )
        => ( /\ ret[T].error = "none"
             /\ View[p] = ret[T].value )

\* An update through a scalar that has raised.
C7_Witness ==
  /\ ret[T].op = "update_preset"
  /\ pre[T].loadable
  /\ Conflict(pre[T].view, ret[T].args)
  /\ ret[T].error \in {"AttributeError", "TypeError"}
  /\ pc[T] = "idle"

\* C8: update_preset with an empty key path raises (IndexError once the
\* document has loaded) and leaves the document a lookup reads and the file
\* as they were.
C8_EmptyPathFails ==
  (ret[T].op = "update_preset" /\ ret[T].args = <<>>)
  => ( /\ ret[T].error # "none"
       /\ pre[T].loadable => ret[T].error = "IndexError"
       /\ View = pre[T].view
       /\ file = pre[T].file )

\* An update with an empty key path on a loaded document that has raised.
C8_Witness ==
  /\ ret[T].op = "update_preset"
  /\ ret[T].args = <<>>
  /\ pre[T].loadable
  /\ cache # 0
  /\ ret[T].error = "IndexError"

\* C9: an update_preset(p, v) that returns normally right after an
\* update_preset(p, v) that returned normally leaves the document a lookup
\* reads and the file as the first call left them.
C9_Idempotent ==
  ( /\ Updated
    /\ pre[T].last.op = "update_preset"
    /\ pre[T].last.args = ret[T].args
    /\ pre[T].last.value = ret[T].value )
  => (View = pre[T].view /\ file = pre[T].file)

\* The second of two equal updates has returned, on a path the first created.
C9_Witness ==
  /\ Updated
  /\ pre[T].last.op = "update_preset"
  /\ pre[T].last.args = ret[T].args
  /\ pre[T].last.value = ret[T].value
  /\ View = pre[T].view
  /\ View[ret[T].args] = ret[T].value
  /\ file = FileOf(View)

\* C10: in every state the document a lookup reads through the cache is the
\* one this process last read from or fully wrote to the file.
C10_CacheIsSynced == cache # 0 => heap[cache] = synced

\* A thread is between the assignment of update_preset (line 80) and the end
\* of its write (line 83).
Writing(t) == frame[t].op = "update_preset" /\ pc[t] \in {"open", "dump"}

\* C11: in no state are two update_preset calls of one process both between
\* their mutation of the document and the completion of their write.
C11_OneWriterAtATime ==
  \A t \in Threads, u \in Threads : (Writing(t) /\ Writing(u)) => t = u

\* What a process that opens the file now and parses it gets.
ReadByOtherProcess ==
  IF ~file.exists THEN [error |-> "FileNotFoundError", tree |-> NoTree]
  ELSE IF ~Parse(file.data).ok THEN [error |-> "JSONDecodeError", tree |-> NoTree]
  ELSE [error |-> "none", tree |-> Parse(file.data).tree]

\* C12: at every point of the write of an update_preset call that began with
\* a file that parses, another process that reads the file gets a whole
\* document, the one the file held before the call or the one being written.
C12_ReadersSeeWholeDocument ==
  \A t \in Threads :
    ( /\ pc[t] = "dump"
      /\ pre[t].file.exists
      /\ Parse(pre[t].file.data).ok )
    => ( /\ ReadByOtherProcess.error = "none"
         /\ ReadByOtherProcess.tree \in { Parse(pre[t].file.data).tree,
                                          heap[frame[t].cfg] } )

\* Thread t has made an update_preset call that returned normally.
UpdatedBy(t) ==
  pc[t] = "idle" /\ ret[t].op = "update_preset" /\ ret[t].error = "none"

\* C15: once two update_preset calls of two threads on key paths that are not
\* above one another have both returned normally, the file parses, holds both
\* new values and is the cached document.
C15_BothUpdatesKept ==
  ( /\ \A t \in Threads : UpdatedBy(t)
    /\ Unrelated(ret["t1"].args, ret["t2"].args) )
  => ( /\ ReadByOtherProcess.error = "none"
       /\ \A t \in Threads :
            /\ ret[t].args \in DOMAIN ReadByOtherProcess.tree
            /\ ReadByOtherProcess.tree[ret[t].args] = ret[t].value
       /\ cache # 0
       /\ ReadByOtherProcess.tree = heap[cache] )

\* C16: every caller that _load_config has handed a document holds the one
\* object that is in the cache.
C16_OneInstance ==
  \A t \in Threads :
    pc[t] \in {"get", "walk", "open", "dump", "publish"} => frame[t].cfg = cache

\* The last call of the caller was the bootstrap step.
Booted == ret[T].op = "ensure_user_config"

\* C13: when ensure_user_config has returned normally, the file at
\* _config_path, which is the one _load_config opens, exists.
C13_BootstrapMakesLoadable ==
  (Booted /\ ret[T].error = "none") => file.exists

\* C19: ensure_user_config leaves a per-user file that exists as it is and
\* returns normally, so that a second run changes nothing; it copies the
\* packaged default, byte for byte, only when the per-user file is absent;
\* after a normal return the per-user file exists.
C19_BootstrapKeepsUserFile ==
  Booted =>
    /\ pre[T].user.exists => (user = pre[T].user /\ ret[T].error = "none")
    /\ user # pre[T].user
       => ( /\ ~pre[T].user.exists
            /\ pre[T].file.exists
            /\ user = [exists |-> TRUE, data |-> pre[T].file.data] )
    /\ ret[T].error = "none" => user.exists
    /\ UserConfigAfter(user, file).user = user \/ ~user.exists

\* The bootstrap step ran right after an update was persisted and left alone
\* a per-user file that differs from the packaged one.
C19_Witness ==
  /\ Booted
  /\ ret[T].error = "none"
  /\ pre[T].last.op = "update_preset"
  /\ pre[T].user.exists
  /\ pre[T].file.exists
  /\ pre[T].user.data # pre[T].file.data
  /\ user = pre[T].user

\* The call before the last one was update_preset(<<n, g, k>>, v), it returned
\* normally, and the document it began with had no g under n.
CreatedGroup ==
  /\ pre[T].last.op = "update_preset"
  /\ Len(pre[T].last.args) = 3
  /\ SubSeq(pre[T].last.args, 1, 2) \notin DOMAIN pre[T].lastview

\* C14: after update_preset([n, g, k], v) has returned normally on a document
\* without g under n, the cached document holds mappings at n and at n.g,
\* and a get_preset_by_preset_model_name(n, g) made next returns {k: v},
\* from the cached object and without loading the file.
C14_CreatedPathIsLookedUp ==
  /\ ( /\ Updated
       /\ Len(ret[T].args) = 3
       /\ SubSeq(ret[T].args, 1, 2) \notin DOMAIN pre[T].view )
     => ( /\ cache # 0
          /\ heap[cache][SubSeq(ret[T].args, 1, 1)] = Dict
          /\ heap[cache][SubSeq(ret[T].args, 1, 2)] = Dict
          /\ heap[cache][ret[T].args] = ret[T].value )
  /\ ( /\ CreatedGroup
       /\ ret[T].op = "get_preset_by_preset_model_name"
       /\ ret[T].args = SubSeq(pre[T].last.args, 1, 2) )
     => ( /\ ret[T].error = "none"
          /\ ret[T].result = Obj(<<pre[T].last.args[3]>>,
                                 <<ScalarTree(pre[T].last.value)>>)
          /\ Len(heap) = 1
          /\ cache = 1 )

\* The lookup of the group an update has just created has returned.
C14_Witness ==
  /\ CreatedGroup
  /\ ret[T].op = "get_preset_by_preset_model_name"
  /\ ret[T].args = SubSeq(pre[T].last.args, 1, 2)
  /\ pc[T] = "idle"
  /\ ret[T].result # EmptyDict

Methods == Accessors \cup {"update_preset"}

\* Thread t leaves _load_config with an exception in this step.
LoadFails(t) ==
  pc[t] = "read" /\ pc'[t] = "idle" /\ ret'[t].error \in LoadErrors

\* C17: a step in which _load_config raises (the file is missing or does not
\* parse), whatever method called it, leaves the cache empty and the file as
\* it is, update_preset having written nothing; as long as that is the last
\* call the cache stays empty; and a call that begins with an empty cache
\* and a file that parses gets past _load_config and populates the cache.
C17_FailedLoadChangesNothing ==
  /\ [][ \A t \in Threads :
           LoadFails(t) => (cache = 0 /\ cache' = 0 /\ file' = file /\ heap' = heap)
       ]_vars
  /\ [](\A t \in Threads :
          /\ (ret[t].op \in Methods /\ ret[t].error \in LoadErrors)
             => (cache = 0 /\ ~pre[t].loadable)
          /\ (ret[t].op \in Methods /\ pre[t].loadable /\ ret[t].error # "Killed")
             => (ret[t].error \notin LoadErrors /\ cache # 0))

\* A call has failed in _load_config, another process has then put a file
\* that parses, and the next call has loaded it.
C17_Witness ==
  /\ pre[T].lasterror \in LoadErrors
  /\ ret[T].op \in Methods
  /\ ret[T].error = "none"
  /\ cache # 0
  /\ heap[cache] = ForeignDoc

\* Thread t completes the write of update_preset in this step.
WriteCompletes(t) == pc[t] = "dump" /\ pc'[t] = "publish"

\* C18: a process parses the file at most once and never opens it for
\* reading while its cache is populated; an accessor answers from the cached
\* document whatever the file holds by then; and the write of update_preset
\* leaves in the file the cached document and nothing else.
C18_CacheIsNotRefreshed ==
  /\ [](/\ Len(heap) <= 1
        /\ cache # 0 => \A t \in Threads : pc[t] # "read"
        /\ \A t \in Threads :
             (ret[t].op \in Accessors /\ ret[t].error \notin LoadErrors)
             => ( /\ cache # 0
                  /\ AccessorResult(ret[t].op, ret[t].args, heap[cache])
                       = [error |-> ret[t].error, value |-> ret[t].result] ))
  /\ [][ \A t \in Threads :
           WriteCompletes(t) => (cache # 0 /\ file' = FileOf(heap[cache])) ]_vars

\* An update_preset has returned that began with a populated cache and a
\* file another process had replaced: what that process wrote is gone.
C18_Witness ==
  /\ Updated
  /\ pre[T].file = FileOf(ForeignDoc)
  /\ pre[T].view # ForeignDoc
  /\ <<"preset", "temp">> \notin DOMAIN pre[T].view
  /\ file = FileOf(heap[cache])
  /\ <<"preset", "temp">> \notin DOMAIN Parse(file.data).tree

\* C20: an accessor call, while it runs and once it has returned, has left
\* the document a lookup reads as it was when the call began, with no key
\* added, and the file as it was, whether the path it probes is there or not.
C20_LookupsAreReadOnly ==
  /\ frame[T].op \in Accessors => (View = pre[T].view /\ file = pre[T].file)
  /\ ret[T].op \in Accessors
     => ( /\ file = pre[T].file
          /\ View = pre[T].view
          /\ ret[T].error \notin LoadErrors
             => (cache # 0 /\ DOMAIN heap[cache] = DOMAIN pre[T].view) )

\* An accessor has returned the empty mapping for a path that is not in the
\* document cached by the update before it, and the path is still not there.
C20_Witness ==
  /\ ret[T].op \in Accessors
  /\ pre[T].last.op = "update_preset"
  /\ ret[T].result = EmptyDict
  /\ ret[T].args[1] \notin { p[1] : p \in DOMAIN pre[T].view \ {<<>>} }
  /\ cache # 0
  /\ heap[cache] = pre[T].view
  /\ file = pre[T].file

====